---- MODULE Spec2Model ----
(***************************************************************************)
(* Model of the OBS recording controller (src/src/core/obs_manager.py)     *)
(* and of the Google Drive upload pipeline                                 *)
(* (src/src/core/google_drive_manager.py) as run by UploadWorker           *)
(* (src/src/ui/main_window.py).                                            *)
(*                                                                         *)
(* Every call to the capture backend or to the remote store is one step;   *)
(* its outcome (a response or an exception) is chosen by the environment.  *)
(* The handlers are sequential: a new operation of a component starts only *)
(* when the previous one has returned (pc = "idle").                       *)
(***************************************************************************)
EXTENDS Integers, Sequences, FiniteSets, TLC

(***************************************************************************)
(* Bounds                                                                  *)
(***************************************************************************)
\* number of distinct desired file stems the caller may ask for
NumStems == 2
\* number of distinct output files the backend may report
NumObsFiles == 2

\* number of remote-store operations (uploads, folder resolutions) started
MaxOps == 2
\* largest size of an uploaded file, in chunks
MaxChunks == 3
\* largest number of folders whose listing fails during one count
MaxFailures == 1
\* the most files the recording folders hold when a recording is started
MaxFiles == 2
\* the most UploadWorker threads running at a time
MaxWorkers == 2

Stems == 1..NumStems
ObsStems == 101..(100 + NumObsFiles)

\* the value None of an unset string attribute
None == "None"
\* the directory of every output_path handed to start_recording (config.data_dir)
DataDir == "data"
\* the directory the backend's profile reports as its recording directory
ObsDir == "obsdir"

\* a scan that looks for the .flv file before the .mkv file
possible_extensions_Reordered == <<".mp4", ".flv", ".mkv", ".mov", ".avi">>

\* possible_extensions of _check_recording_output_exists, in scan order
possible_extensions == <<".mp4", ".mkv", ".flv", ".mov", ".avi">>

NoPath == [dir |-> None, stem |-> 0, ext |-> ""]
MkPath(d, s, e) == [dir |-> d, stem |-> s, ext |-> e]

\* the paths the backend may report as the output of a stop_record
ObsPaths ==
    {IF s % 2 = 1 THEN MkPath(DataDir, s, ".mp4") ELSE MkPath(ObsDir, s, ".mkv") :
        s \in ObsStems}

\* the id of the configured shared root folder (SHARED_FOLDER_ID)
SHARED_FOLDER_ID == 0
\* parent_id=None
NoParent == -1

\* the taxonomy the caller draws class, chapter and subtopic from
Classes == {"11th"}
Chapters == {"Thermodynamics"}
Subtopics == {"Main", "Numericals"}
Year == "2024"
Extensions == {"mp4", "txt"}

\* folder names are sequences of the strings they are formatted from
ClassYearName(class_name, year) == <<class_name, "_", year>>
PlainName(n) == <<n>>

\* the callers of the remote store
JobIds == {1}

\* the threads that may call the GoogleDriveManager at the same time
Callers == {1, 2}

VARIABLES
    \* ---- remote store ----
    folders,
    files,
    nextId,
    \* ---- the date the clock shows ----
    today,
    \* ---- GoogleDriveManager invocations: position, arguments, locals ----
    job,
    ops,
    \* ---- what the completed get_or_create_folder calls returned ----
    resolved,
    \* ---- OBSManager attributes ----
    is_connected,
    is_recording,
    has_scenes,
    recording_path,
    recording_filename,
    last_recording_path,
    \* ---- position of the running OBSManager method and its locals ----
    pc,
    method,
    output_path,
    \* ---- capture backend and file system ----
    obs_active,
    fs,
    \* ---- the files modified within the last minute, most recent last ----
    recent,
    \* ---- observation of the running / last OBSManager invocation ----
    lastOp,
    ret,
    pre,
    calls,
    \* ---- MainWindow: dropdowns, buttons (enabled or not), attributes ----
    class_dropdown,
    chapter_dropdown,
    record_btn,
    upload_btn,
    reconnect_btn,
    selected_file,
    desired_filename,
    \* ---- the number of UploadWorker threads that have not emitted finished ----
    upload_worker,
    \* ---- observation of the last stop flow of the window ----
    flow,
    \* ---- observation: the selected file was selected by a stop flow that ----
    \* ---- ran while a worker was running, and no worker started since     ----
    selected_since_upload

obsVars == <<is_connected, is_recording, has_scenes, recording_path,
             recording_filename, last_recording_path, pc, method,
             output_path, obs_active, fs, recent, lastOp, ret, pre, calls>>

driveVars == <<folders, files, nextId, today, job, ops, resolved>>

guiVars == <<class_dropdown, chapter_dropdown, record_btn, upload_btn,
             reconnect_btn, selected_file, desired_filename, upload_worker,
             flow, selected_since_upload>>

vars == <<obsVars, driveVars, guiVars>>

(***************************************************************************)
(* Helpers                                                                 *)
(***************************************************************************)
Call(f, o) == [fn |-> f, out |-> o]

\* the answers a get_record_status call can produce in the current backend state
StatusOutcomes == {IF obs_active THEN "active" ELSE "inactive", "nofield", "raise"}

CallsOf(f) == {i \in 1..Len(calls) : calls[i].fn = f}

Snapshot ==
    [is_connected |-> is_connected,
     is_recording |-> is_recording,
     obs_active |-> obs_active,
     last_recording_path |-> last_recording_path]

\* an invocation begins: remember the state it started from
Begin(op) ==
    /\ lastOp' = op
    /\ pre' = Snapshot

NoSnapshot ==
    [is_connected |-> FALSE, is_recording |-> FALSE, obs_active |-> FALSE,
     last_recording_path |-> NoPath]

\* the running invocation returns r to its caller
Return(r) ==
    /\ pc' = "returned"
    /\ ret' = r

(***************************************************************************)
(* The file system                                                         *)
(***************************************************************************)
\* the files the recording directory may hold when the application starts
InitialDisks == {{}, {MkPath(DataDir, 1, ".mkv"), MkPath(DataDir, 1, ".flv")}}

\* sequence s without the element x
RECURSIVE Without(_, _)
Without(s, x) ==
    IF s = <<>> THEN <<>>
    ELSE IF Head(s) = x THEN Without(Tail(s), x)
         ELSE <<Head(s)>> \o Without(Tail(s), x)

\* the modification times after file p has been written
Touch(s, p) == Append(Without(s, p), p)

(***************************************************************************)
(* OBSManager.__init__                                                     *)
(***************************************************************************)
ObsInit ==
    /\ is_connected = FALSE
    /\ is_recording = FALSE
    /\ has_scenes = FALSE
    /\ recording_path = None
    /\ recording_filename = 0
    /\ last_recording_path = NoPath
    /\ pc = "idle"
    /\ method = 0
    /\ output_path = NoPath
    /\ obs_active \in BOOLEAN
    /\ fs \in InitialDisks
    /\ recent = <<>>
    /\ lastOp = "none"
    /\ ret = "pending"
    /\ pre = NoSnapshot
    /\ calls = <<>>

(***************************************************************************)
(* OBSManager.connect                                                      *)
(***************************************************************************)
\* a setup check that takes the scene probe at its word
CheckObsRecordingSetup_Strict(probe, conn) == probe = "scenes"

\* _check_obs_recording_setup: has_scenes after the scene probe answered
\* probe ("scenes", "empty" or "raise") while is_connected = conn
CheckObsRecordingSetup(probe, conn) ==
    IF probe = "scenes" THEN TRUE ELSE conn

\* _check_recording_settings: recording_path after the profile query
CheckRecordingSettings(answer, old) ==
    CASE answer = "value" -> ObsDir
      [] answer = "raise" -> None
      [] OTHER -> old

connect_invoked ==
    /\ Begin("connect")
    /\ \E handshake \in {"ok", "raise"} :
         IF handshake = "raise"
         THEN /\ is_connected' = FALSE
              /\ calls' = <<Call("ReqClient", "raise")>>
              /\ Return("False")
              /\ UNCHANGED <<has_scenes, recording_path>>
         ELSE \E probe \in {"scenes", "empty", "raise"},
                 answer \in {"value", "nofield", "raise"} :
              /\ is_connected' = TRUE
              /\ has_scenes' = CheckObsRecordingSetup(probe, TRUE)
              /\ recording_path' = CheckRecordingSettings(answer, recording_path)
              /\ calls' = <<Call("ReqClient", "ok"), Call("get_version", "any"),
                            Call("get_scene_list", probe),
                            Call("get_profile_parameter", answer),
                            Call("get_profile_parameter", "any")>>
              /\ Return("True")
    /\ UNCHANGED <<is_recording, recording_filename, last_recording_path,
                   method, output_path, obs_active, fs, recent>>

\* a caller invokes connect()
connect ==
    /\ pc = "idle"
    /\ connect_invoked
    /\ UNCHANGED driveVars
    /\ UNCHANGED guiVars

\* is_ready_for_recording (lines 164-172)
is_ready_for_recording ==
    IF ~is_connected THEN FALSE ELSE is_connected /\ has_scenes

(***************************************************************************)
(* OBSManager.disconnect                                                   *)
(***************************************************************************)
disconnect ==
    /\ pc = "idle"
    /\ Begin("disconnect")
    /\ is_connected' = FALSE
    /\ calls' = <<>>
    /\ Return("None")
    /\ UNCHANGED <<is_recording, has_scenes, recording_path, recording_filename,
                   last_recording_path, method, output_path,
                   obs_active, fs, recent>>
    /\ UNCHANGED driveVars
    /\ UNCHANGED guiVars

(***************************************************************************)
(* OBSManager.start_recording                                              *)
(***************************************************************************)
\* a start_recording that does not look at the connection state
StartRefused_NoCheck == FALSE

\* line 190: the invocation is refused when the controller is not connected
StartRefused == ~is_connected

\* a start_recording that never stops a running recording
AlreadyRecording_Never(status) == FALSE

\* line 245: the status answer that makes start_recording stop first
AlreadyRecording(status) == status = "active"

\* a verification that takes a missing answer for a failure
_check_recording_status_Strict(status) == status = "active"

\* _check_recording_status: the verdict on a status answer
_check_recording_status(status) ==
    CASE status = "active" -> TRUE
      [] status = "inactive" -> FALSE
      [] OTHER -> TRUE

\* the configuration calls a method issues before its start_record; their
\* outcome is only logged by the code
ConfigCalls(m) ==
    CASE m = 1 -> <<Call("set_record_directory", "any")>>
      [] m = 2 -> <<Call("set_profile_parameter", "any"),
                    Call("set_profile_parameter", "any")>>
      [] OTHER -> <<>>

\* lines 258-270: the method tried after method m did not succeed (4: none left)
NextMethod(m) == m + 1

\* a start_recording that goes on to the next method after a success
StopAtSuccess_Never(success) == FALSE

\* lines 259, 264, 269: start_recording returns as soon as a method succeeded
StopAtSuccess(success) == success

\* a start_recording that leaves the flag clear when all methods failed
ManualRecordingState_Clear == FALSE

\* line 274: the flag set when all three methods failed
ManualRecordingState == TRUE

\* a start_recording that reports the failure of all three methods
AllMethodsFailed_Reported == "False"

\* line 280: the value returned when all three methods failed
AllMethodsFailed == "True"

\* lines 258-280: method m returned success to start_recording, having left
\* the recording flag at rec
MethodReturned(m, success, rec) ==
    IF StopAtSuccess(success)
    THEN /\ is_recording' = rec
         /\ method' = 0
         /\ Return("True")
    ELSE IF NextMethod(m) \in 1..3
         THEN /\ is_recording' = rec
              /\ method' = NextMethod(m)
              /\ pc' = "method_start"
              /\ UNCHANGED ret
         ELSE /\ is_recording' = ManualRecordingState
              /\ method' = 0
              /\ Return(AllMethodsFailed)

start_recording_invoked(stem) ==
    /\ Begin("start_recording")
    /\ calls' = <<>>
    /\ \E dir \in {"ok", "mkdir_fails", "not_writable"} :
         IF StartRefused
         THEN /\ Return("False")
              /\ UNCHANGED <<has_scenes, recording_filename, recording_path>>
         ELSE /\ has_scenes' = TRUE
              /\ IF dir = "ok"
                 THEN /\ recording_filename' = stem
                      /\ recording_path' = DataDir
                      /\ pc' = "start_status"
                      /\ ret' = "pending"
                 ELSE /\ Return("False")
                      /\ UNCHANGED <<recording_filename, recording_path>>
    /\ UNCHANGED <<is_connected, is_recording, last_recording_path, method,
                   output_path, obs_active, fs, recent>>

\* a caller invokes start_recording(output_path)
start_recording ==
    /\ pc = "idle"
    /\ \E stem \in Stems : start_recording_invoked(stem)
    /\ UNCHANGED driveVars
    /\ UNCHANGED guiVars

\* lines 238-253: status query and forced stop of a running recording
start_status ==
    /\ pc = "start_status"
    /\ \E status \in StatusOutcomes :
         /\ IF status # "raise" /\ AlreadyRecording(status)
            THEN \E stop \in {"ok", "raise"} :
                 /\ calls' = calls \o <<Call("get_record_status", status),
                                        Call("stop_record", stop)>>
                            \o (IF stop = "ok" THEN <<Call("sleep", "1")>> ELSE <<>>)
                 /\ obs_active' = IF stop = "ok" THEN FALSE ELSE obs_active
            ELSE /\ calls' = Append(calls, Call("get_record_status", status))
                 /\ UNCHANGED obs_active
    /\ method' = 1
    /\ pc' = "method_start"
    /\ UNCHANGED <<is_connected, is_recording, has_scenes, recording_path,
                   recording_filename, last_recording_path, output_path, fs, recent,
                   lastOp, ret, pre>>
    /\ UNCHANGED driveVars
    /\ UNCHANGED guiVars

\* _try_recording_method_1/2/3 up to the start_record call
try_recording_method_start ==
    /\ pc = "method_start"
    /\ \E start \in {"ok_started", "ok_not_started", "raise"} :
         /\ calls' = calls \o ConfigCalls(method)
                           \o <<Call("start_record", start)>>
                           \o (IF start = "raise" THEN <<>> ELSE <<Call("sleep", "1")>>)
         /\ obs_active' = IF start = "ok_started" THEN TRUE ELSE obs_active
         /\ IF start = "raise"
            THEN MethodReturned(method, FALSE, is_recording)
            ELSE /\ pc' = "method_verify"
                 /\ UNCHANGED <<method, ret, is_recording>>
    /\ UNCHANGED <<is_connected, has_scenes, recording_path,
                   recording_filename, last_recording_path, output_path, fs, recent,
                   lastOp, pre>>
    /\ UNCHANGED driveVars
    /\ UNCHANGED guiVars

\* _try_recording_method_1/2/3 from the verification on
try_recording_method_verify ==
    /\ pc = "method_verify"
    /\ \E status \in StatusOutcomes :
         LET verdict == _check_recording_status(status)
         IN  /\ calls' = calls \o <<Call("get_record_status", status),
                                    Call("_check_recording_status",
                                         IF verdict THEN "True" ELSE "False")>>
             /\ MethodReturned(method, verdict,
                               IF verdict THEN TRUE ELSE is_recording)
    /\ UNCHANGED <<is_connected, has_scenes, recording_path,
                   recording_filename, last_recording_path, output_path,
                   obs_active, fs, recent, lastOp, pre>>
    /\ UNCHANGED driveVars
    /\ UNCHANGED guiVars

\* a stop_recording that does not look at the connection state
StopRefused_Never == FALSE

(***************************************************************************)
(* OBSManager.stop_recording                                               *)
(***************************************************************************)
\* line 464: the invocation is refused when the controller is not connected
StopRefused == ~is_connected

\* a stop_recording that skips the stop when the backend is not recording
AfterStatusBefore_Gated(status) ==
    IF status = "inactive" THEN "stop_after" ELSE "stop_stop"

\* lines 478-494: the step that follows the status query answered status
AfterStatusBefore(status) == "stop_stop"

\* _check_recording_output_exists: the first existing file named
\* recording_filename with one of possible_extensions in recording_path
RECURSIVE ScanExtensions(_, _, _, _)
ScanExtensions(i, dir, stem, disk) ==
    IF i > Len(possible_extensions) THEN NoPath
    ELSE IF MkPath(dir, stem, possible_extensions[i]) \in disk
         THEN MkPath(dir, stem, possible_extensions[i])
         ELSE ScanExtensions(i + 1, dir, stem, disk)

_check_recording_output_exists(old, disk) ==
    IF recording_path = None \/ recording_filename = 0
    THEN old
    ELSE LET recording_file ==
                 ScanExtensions(1, recording_path, recording_filename, disk)
         IN  IF recording_file # NoPath THEN recording_file ELSE old

stop_recording_invoked ==
    /\ Begin("stop_recording")
    /\ calls' = <<>>
    /\ IF StopRefused
       THEN Return("False")
       ELSE /\ pc' = "stop_status"
            /\ ret' = "pending"
    /\ UNCHANGED <<is_connected, is_recording, has_scenes, recording_path,
                   recording_filename, last_recording_path, method,
                   output_path, obs_active, fs, recent>>

\* a caller invokes stop_recording()
stop_recording ==
    /\ pc = "idle"
    /\ stop_recording_invoked
    /\ UNCHANGED driveVars
    /\ UNCHANGED guiVars

\* lines 479-492: status query before the stop
stop_status ==
    /\ pc = "stop_status"
    /\ \E status \in StatusOutcomes :
         /\ calls' = Append(calls, Call("get_record_status", status))
         /\ is_recording' = IF status = "inactive" THEN FALSE ELSE is_recording
         /\ pc' = AfterStatusBefore(status)
    /\ UNCHANGED <<is_connected, has_scenes, recording_path,
                   recording_filename, last_recording_path, method,
                   output_path, obs_active, fs, recent, lastOp, ret, pre>>
    /\ UNCHANGED driveVars
    /\ UNCHANGED guiVars

\* lines 494-514: the stop_record call; a stopped backend has flushed its
\* output file to the reported path, or has lost it; a response without a
\* path comes from a backend that wrote a file it does not name, or none
stop_stop ==
    /\ pc = "stop_stop"
    /\ \/ \E p \in ObsPaths, flushed \in BOOLEAN :
            /\ obs_active
            /\ calls' = Append(calls, Call("stop_record", "ok_path"))
            /\ output_path' = p
            /\ last_recording_path' = p
            /\ fs' = IF flushed THEN fs \cup {p} ELSE fs \ {p}
            /\ recent' = IF flushed THEN Touch(recent, p) ELSE Without(recent, p)
            /\ obs_active' = FALSE
       \/ \E w \in ObsPaths \cup {NoPath} :
            /\ obs_active
            /\ calls' = Append(calls, Call("stop_record", "ok_nopath"))
            /\ obs_active' = FALSE
            /\ fs' = IF w = NoPath THEN fs ELSE fs \cup {w}
            /\ recent' = IF w = NoPath THEN recent ELSE Touch(recent, w)
            /\ UNCHANGED <<output_path, last_recording_path>>
       \/ /\ calls' = Append(calls, Call("stop_record", "raise"))
          /\ UNCHANGED <<output_path, last_recording_path, fs, recent, obs_active>>
    /\ is_recording' = FALSE
    /\ pc' = "stop_after"
    /\ UNCHANGED <<is_connected, has_scenes, recording_path,
                   recording_filename, method, lastOp, ret, pre>>
    /\ UNCHANGED driveVars
    /\ UNCHANGED guiVars

\* a stop_recording that lets the backend settle before it asks for the status
AfterStop_DelayFirst(status) ==
    <<Call("sleep", "5"), Call("get_record_status", status)>>

\* lines 516-527: the status query after the stop, then the wait of 5 seconds
AfterStop(status) ==
    <<Call("get_record_status", status), Call("sleep", "5")>>

\* lines 516-555: status after the stop, the wait, and the file check
stop_after ==
    /\ pc = "stop_after"
    /\ \E status \in StatusOutcomes :
         calls' = calls \o AfterStop(status)
    /\ last_recording_path' =
         IF output_path # NoPath
         THEN IF output_path \in fs
              THEN IF last_recording_path = NoPath
                   THEN output_path ELSE last_recording_path
              ELSE _check_recording_output_exists(last_recording_path, fs)
         ELSE _check_recording_output_exists(last_recording_path, fs)
    /\ Return("True")
    /\ UNCHANGED <<is_connected, is_recording, has_scenes, recording_path,
                   recording_filename, method, output_path, obs_active, fs,
                   recent, lastOp, pre>>
    /\ UNCHANGED driveVars
    /\ UNCHANGED guiVars

(***************************************************************************)
(* The caller takes the returned value; the controller is idle again       *)
(***************************************************************************)
returned ==
    /\ pc = "returned"
    /\ pc' = "idle"
    /\ lastOp' = "none"
    /\ ret' = "pending"
    /\ pre' = NoSnapshot
    /\ calls' = <<>>
    \* the locals of the invocation are gone
    /\ output_path' = NoPath
    /\ UNCHANGED <<is_connected, is_recording, has_scenes, recording_path,
                   recording_filename, last_recording_path, method,
                   obs_active, fs, recent>>
    /\ UNCHANGED driveVars
    /\ UNCHANGED guiVars


(***************************************************************************)
(* MainWindow                                                              *)
(***************************************************************************)
\* the first item of the class dropdown and of the chapter dropdown
SelectClass == "Select Class"
SelectChapter == 0

\* the chapters config.get_chapters lists for the class
ChapterItems == {1}

\* file names: desired_filename is "<class>_<chapter>_<subtopic>_<date>.mp4",
\* of which the chapter chosen is the part that varies; stem + SuffixBase * k
\* stands for the stem followed by "_k"
SuffixBase == 1000
Filename(s, e) == [stem |-> s, ext |-> e]
NoFilename == Filename(0, "")

\* lines 112-115: the drive manager of the OBSManager is always there
is_drive_configured == TRUE

\* desired_filename.rsplit('.', 1)
rsplit(name) == <<name.stem, name.ext>>

\* line 672: f"{name_parts[0]}_{counter}.{name_parts[1]}"
Numbered_Name(name_parts, counter) ==
    Filename(name_parts[1] + SuffixBase * counter, name_parts[2])

\* target_dir / name
Join(dir, name) == MkPath(dir, name.stem, name.ext)

\* lines 660-676: the first free path of the series name, name_1, name_2, ...;
\* counter = 0 is the desired name itself
RECURSIVE TargetPath(_, _, _, _)
TargetPath(target_dir, name, counter, disk) ==
    LET target_path ==
            IF counter = 0 THEN Join(target_dir, name)
            ELSE Join(target_dir, Numbered_Name(rsplit(name), counter))
    IN  IF target_path \in disk
        THEN TargetPath(target_dir, name, counter + 1, disk)
        ELSE target_path

\* a rename that takes the desired name whether or not it is taken
rename_target_Overwriting(target_dir, name, disk) == Join(target_dir, name)

\* lines 657-676: the path rename_recording_file renames to
rename_target(target_dir, name, disk) == TargetPath(target_dir, name, 0, disk)

\* the mtimes after old has been renamed to new
RECURSIVE Moved(_, _, _)
Moved(s, old, new) ==
    IF s = <<>> THEN <<>>
    ELSE <<IF Head(s) = old THEN new ELSE Head(s)>> \o Moved(Tail(s), old, new)

\* lines 703-715: data_dir and the default folders that exist (the folder
\* the backend records into by default is the user's Videos folder)
ScannedDirs == {DataDir, ObsDir}

\* lines 703-719: glob("*.mp4") over the scanned folders
Globbed(disk) == {f \in disk : f.dir \in ScannedDirs /\ f.ext = ".mp4"}

\* lines 722-727: the files modified in the last 60 seconds, oldest first
recent_files(disk, mtimes) ==
    LET Hit(f) == f \in Globbed(disk)
    IN  SelectSeq(mtimes, Hit)

\* a search that takes the first file of the list in ascending order of
\* modification time
Searched_Oldest(disk, mtimes) ==
    LET r == recent_files(disk, mtimes)
    IN  IF r = <<>> THEN NoPath ELSE r[1]

\* lines 727-731: the file search_for_recordings selects, if any
Searched(disk, mtimes) ==
    LET r == recent_files(disk, mtimes)
    IN  IF r = <<>> THEN NoPath ELSE r[Len(r)]

NoFlow ==
    [actual |-> NoPath, target |-> NoPath, renamed |-> FALSE,
     searched |-> FALSE, disk |-> {}, mtimes |-> <<>>]

\* lines 102-123 and setup_ui: the window as constructed
GuiInit ==
    /\ class_dropdown = SelectClass
    /\ chapter_dropdown = SelectChapter
    /\ record_btn = FALSE
    /\ upload_btn = FALSE
    /\ reconnect_btn = TRUE
    /\ selected_file = NoPath
    /\ desired_filename = NoFilename
    /\ upload_worker = 0
    /\ selected_since_upload = FALSE
    /\ flow = NoFlow

\* the handler has returned to the event loop
EventLoop ==
    /\ pc' = "idle"
    /\ lastOp' = "none"
    /\ ret' = "pending"
    /\ pre' = NoSnapshot
    /\ calls' = <<>>
    /\ output_path' = NoPath

\* lines 125-145 and 810-826: connect_obs, at startup or from the reconnect
\* button (which disconnects first), with the connect() it runs
connect_obs ==
    /\ pc = "idle"
    /\ reconnect_btn
    /\ \E handshake \in {"ok", "raise"} :
         IF handshake = "raise"
         THEN /\ is_connected' = FALSE
              /\ record_btn' = FALSE
              /\ UNCHANGED <<has_scenes, recording_path>>
         ELSE \E probe \in {"scenes", "empty", "raise"},
                 answer \in {"value", "nofield", "raise"} :
              /\ is_connected' = TRUE
              /\ has_scenes' = CheckObsRecordingSetup(probe, TRUE)
              /\ recording_path' = CheckRecordingSettings(answer, recording_path)
              /\ record_btn' = (class_dropdown # SelectClass
                                /\ chapter_dropdown # SelectChapter)
    /\ reconnect_btn' = TRUE
    /\ UNCHANGED <<is_recording, recording_filename, last_recording_path, pc,
                   method, output_path, obs_active, fs, recent, lastOp, ret,
                   pre, calls>>
    /\ UNCHANGED <<class_dropdown, chapter_dropdown, upload_btn, selected_file,
                   desired_filename, upload_worker, flow,
                   selected_since_upload>>
    /\ UNCHANGED driveVars

\* lines 325-366: the user picks another item of the class dropdown; the
\* chapter and subtopic dropdowns are refilled, whose change handlers leave
\* the record button disabled
_on_class_changed ==
    /\ pc = "idle"
    /\ \E class_name \in {SelectClass} \cup Classes :
         /\ class_name # class_dropdown
         /\ class_dropdown' = class_name
         /\ chapter_dropdown' = SelectChapter
         /\ record_btn' = FALSE
         /\ IF class_name = SelectClass
            THEN UNCHANGED <<selected_file, upload_btn, selected_since_upload>>
            ELSE /\ selected_file' = NoPath
                 /\ upload_btn' = FALSE
                 /\ selected_since_upload' = FALSE
    /\ UNCHANGED <<reconnect_btn, desired_filename, upload_worker, flow>>
    /\ UNCHANGED obsVars
    /\ UNCHANGED driveVars

\* lines 368-392: the user picks another item of the chapter dropdown
_on_chapter_changed ==
    /\ pc = "idle"
    /\ class_dropdown # SelectClass
    /\ \E chapter_name \in {SelectChapter} \cup ChapterItems :
         /\ chapter_name # chapter_dropdown
         /\ chapter_dropdown' = chapter_name
         /\ record_btn' = (chapter_name # SelectChapter)
    /\ UNCHANGED <<class_dropdown, upload_btn, reconnect_btn, selected_file,
                   desired_filename, upload_worker, flow,
                   selected_since_upload>>
    /\ UNCHANGED obsVars
    /\ UNCHANGED driveVars

\* lines 537-600: a click on the record button while not recording
toggle_recording_start ==
    /\ pc = "idle"
    /\ record_btn
    /\ is_connected
    /\ ~is_recording
    /\ class_dropdown # SelectClass
    /\ chapter_dropdown # SelectChapter
    /\ Cardinality(fs) < MaxFiles
    /\ selected_file' = NoPath
    /\ selected_since_upload' = FALSE
    /\ upload_btn' = FALSE
    /\ desired_filename' = Filename(chapter_dropdown, ".mp4")
    /\ start_recording_invoked(chapter_dropdown)
    /\ UNCHANGED <<class_dropdown, chapter_dropdown, record_btn, reconnect_btn,
                   upload_worker, flow>>
    /\ UNCHANGED driveVars

\* lines 584-600: start_recording has returned to toggle_recording
toggle_recording_started ==
    /\ pc = "returned"
    /\ lastOp = "start_recording"
    /\ reconnect_btn' = IF ret = "True" THEN FALSE ELSE reconnect_btn
    /\ EventLoop
    /\ UNCHANGED <<is_connected, is_recording, has_scenes, recording_path,
                   recording_filename, last_recording_path, method,
                   obs_active, fs, recent>>
    /\ UNCHANGED <<class_dropdown, chapter_dropdown, record_btn, upload_btn,
                   selected_file, desired_filename, upload_worker, flow,
                   selected_since_upload>>
    /\ UNCHANGED driveVars

\* lines 601-603: a click on the record button while recording
toggle_recording_stop ==
    /\ pc = "idle"
    /\ record_btn
    /\ is_connected
    /\ is_recording
    /\ stop_recording_invoked
    /\ UNCHANGED guiVars
    /\ UNCHANGED driveVars

\* lines 700-748: search_for_recordings selects the most recent .mp4 file
\* of the last 60 seconds and enables the upload button, or changes nothing
search_for_recordings(enabled) ==
    LET found == Searched(fs, recent)
    IN  /\ selected_file' = IF found # NoPath THEN found ELSE selected_file
        /\ upload_btn' = IF found # NoPath THEN TRUE ELSE enabled
        /\ UNCHANGED <<fs, recent>>

\* lines 641-698: rename_recording_file(actual_path), followed by the
\* setEnabled of line 621 when after is TRUE
rename_recording_file(actual_path, after) ==
    LET target_path == rename_target(actual_path.dir, desired_filename, fs)
    IN  \/ /\ actual_path \notin fs
           /\ search_for_recordings(after \/ upload_btn)
           /\ flow' = [NoFlow EXCEPT !.actual = actual_path, !.searched = TRUE,
                                     !.disk = fs, !.mtimes = recent]
        \/ /\ actual_path \in fs
           /\ fs' = (fs \ {actual_path}) \cup {target_path}
           /\ recent' = Moved(recent, actual_path, target_path)
           /\ selected_file' = target_path
           /\ upload_btn' = (is_drive_configured \/ after \/ upload_btn)
           /\ flow' = [NoFlow EXCEPT !.actual = actual_path,
                                     !.target = target_path, !.renamed = TRUE,
                                     !.disk = fs, !.mtimes = recent]
        \/ /\ actual_path \in fs
           \* Path.rename raised
           /\ search_for_recordings(after \/ upload_btn)
           /\ flow' = [NoFlow EXCEPT !.actual = actual_path,
                                     !.target = target_path, !.searched = TRUE,
                                     !.disk = fs, !.mtimes = recent]

\* lines 603-639: stop_recording has returned to toggle_recording
toggle_recording_stopped ==
    /\ pc = "returned"
    /\ lastOp = "stop_recording"
    /\ reconnect_btn' = TRUE
    /\ IF ret = "True" /\ last_recording_path # NoPath
          /\ desired_filename # NoFilename
       THEN rename_recording_file(last_recording_path, is_drive_configured)
       ELSE /\ search_for_recordings(upload_btn)
            /\ flow' = [NoFlow EXCEPT !.searched = TRUE, !.disk = fs,
                                      !.mtimes = recent]
    /\ selected_since_upload' =
          IF selected_file' # selected_file /\ selected_file' # NoPath
          THEN upload_worker > 0
          ELSE selected_since_upload
    /\ pc' = "shown"
    /\ UNCHANGED <<is_connected, is_recording, has_scenes, recording_path,
                   recording_filename, last_recording_path, method,
                   output_path, obs_active, lastOp, ret, pre, calls>>
    /\ UNCHANGED <<class_dropdown, chapter_dropdown, record_btn,
                   desired_filename, upload_worker>>
    /\ UNCHANGED driveVars

\* the stop flow is over: back in the event loop
shown ==
    /\ pc = "shown"
    /\ EventLoop
    /\ flow' = NoFlow
    /\ UNCHANGED <<is_connected, is_recording, has_scenes, recording_path,
                   recording_filename, last_recording_path, method,
                   obs_active, fs, recent>>
    /\ UNCHANGED <<class_dropdown, chapter_dropdown, record_btn, upload_btn,
                   reconnect_btn, selected_file, desired_filename, upload_worker,
                   selected_since_upload>>
    /\ UNCHANGED driveVars

\* lines 455-495: a click on the upload button starts an UploadWorker
upload_clicked ==
    /\ pc = "idle"
    /\ upload_btn
    /\ selected_file # NoPath
    /\ selected_file \in fs
    /\ class_dropdown # SelectClass
    /\ chapter_dropdown # SelectChapter
    /\ upload_worker < MaxWorkers
    /\ upload_btn' = FALSE
    /\ upload_worker' = upload_worker + 1
    /\ selected_since_upload' = FALSE
    /\ UNCHANGED <<class_dropdown, chapter_dropdown, record_btn, reconnect_btn,
                   selected_file, desired_filename, flow>>
    /\ UNCHANGED obsVars
    /\ UNCHANGED driveVars

\* lines 502-535: the finished signal of a worker reaches the window
_upload_finished ==
    /\ pc = "idle"
    /\ upload_worker > 0
    /\ \E success \in BOOLEAN :
         /\ upload_worker' = upload_worker - 1
         /\ IF success
            THEN /\ selected_since_upload' = FALSE
                 /\ class_dropdown' = SelectClass
                 /\ chapter_dropdown' = SelectChapter
                 /\ selected_file' = NoPath
                 /\ upload_btn' = FALSE
                 /\ record_btn' = FALSE
            ELSE /\ upload_btn' = TRUE
                 /\ UNCHANGED <<class_dropdown, chapter_dropdown, selected_file,
                                record_btn, selected_since_upload>>
    /\ UNCHANGED <<reconnect_btn, desired_filename, flow>>
    /\ UNCHANGED obsVars
    /\ UNCHANGED driveVars

\* a minute passes: no file is recent any more
tick ==
    /\ pc = "idle"
    /\ recent # <<>>
    /\ recent' = <<>>
    /\ UNCHANGED <<is_connected, is_recording, has_scenes, recording_path,
                   recording_filename, last_recording_path, pc, method,
                   output_path, obs_active, fs, lastOp, ret, pre, calls>>
    /\ UNCHANGED guiVars
    /\ UNCHANGED driveVars

(***************************************************************************)
(* OBSManager.upload_last_recording                                        *)
(***************************************************************************)
\* google_drive_manager.py line 117: the parameters of upload_file that have
\* no default value
RequiredParameters == <<"filepath", "class_name", "chapter_name", "year">>

\* line 607: the arguments of the call self.drive_manager.upload_file(...)
PassedArguments == <<"last_recording_path">>

\* binding the arguments of a call to the parameters of the callee
BindArguments(arguments, parameters) ==
    IF Len(arguments) < Len(parameters) THEN "TypeError" ELSE "bound"

\* an upload_last_recording that lets the exception reach its caller
Caught_Propagated(e) == e

\* lines 611-613: except Exception: return None
Caught(e) == "None"

upload_last_recording ==
    /\ pc = "idle"
    /\ Begin("upload_last_recording")
    /\ IF last_recording_path = NoPath
       THEN /\ calls' = <<>>
            /\ Return("None")
       ELSE IF last_recording_path \notin fs
       THEN /\ calls' = <<Call("os.path.exists", "False")>>
            /\ Return("None")
       ELSE IF BindArguments(PassedArguments, RequiredParameters) = "TypeError"
       THEN /\ calls' = <<Call("os.path.exists", "True"),
                          Call("upload_file", "TypeError")>>
            /\ Return(Caught("TypeError"))
       ELSE \E outcome \in {"file_id", "raise"} :
            /\ calls' = <<Call("os.path.exists", "True"),
                          Call("upload_file", outcome)>>
            /\ Return(IF outcome = "raise" THEN Caught("Exception") ELSE "file_id")
    /\ UNCHANGED <<is_connected, is_recording, has_scenes, recording_path,
                   recording_filename, last_recording_path, method,
                   output_path, obs_active, fs, recent>>
    /\ UNCHANGED driveVars
    /\ UNCHANGED guiVars

(***************************************************************************)
(* The remote store                                                        *)
(***************************************************************************)
Folder(i, n, p, t) == [id |-> i, name |-> n, parent |-> p, trashed |-> t]
File(i, n, p) == [id |-> i, name |-> n, parent |-> p]

\* a store whose list request answers with no folder at all
ListFolders_Nothing(n, p) == {}

\* files().list(q = name = n and mimeType = folder and p in parents and
\* trashed = false): the ids of the matching folders
ListFolders(n, p) ==
    {f.id : f \in {g \in folders : g.name = n /\ g.parent = p /\ ~g.trashed}}

\* the non-trashed folders directly under folder p
SubFolders(p) == {f \in folders : f.parent = p /\ ~f.trashed}

\* one request of an invocation to the remote store and its outcome
Req(f, l, o) == [fn |-> f, level |-> l, out |-> o]

NoDate == [day |-> 0, month |-> 0, year |-> 0]

IdleJob ==
    [op |-> "none", pc |-> "idle", exists |-> FALSE,
     class_name |-> "", chapter_name |-> "", subtopic_name |-> "", ext |-> <<>>,
     now |-> NoDate,
     level |-> "", folder_name |-> <<>>, parent_id |-> NoParent,
     class_year_folder_id |-> NoParent, chapter_folder_id |-> NoParent,
     subtopic_folder_id |-> NoParent,
     folder_id |-> NoParent, file_extension |-> None, failing |-> {},
     file_count |-> 0,
     class_number |-> 0, total |-> 0, sent |-> 0, progress |-> <<>>,
     ret |-> [kind |-> "pending", id |-> NoParent],
     listed_at |-> NoParent,
     emitted |-> <<>>, finished |-> <<>>, signals |-> <<>>,
     requests |-> <<>>]

Returned(i) == [kind |-> "id", id |-> i]
Raised(e) == [kind |-> e, id |-> NoParent]
\* upload_file returns the None of a response without an id
ReturnedNone == [kind |-> "None", id |-> NoParent]

\* the signals of the worker, in the order of their emission
ProgressSignal(n) ==
    [signal |-> "progress", percent |-> n, ok |-> FALSE, message |-> ""]
Finished(f) ==
    [signal |-> "finished", percent |-> 0, ok |-> f.ok, message |-> f.message]

(***************************************************************************)
(* The remote file name                                                    *)
(***************************************************************************)
Digit(n) == <<"0", "1", "2", "3", "4", "5", "6", "7", "8", "9">>[n + 1]

\* str(n) of a non-negative integer, digit by digit
RECURSIVE Str(_)
Str(n) == IF n < 10 THEN <<Digit(n)>> ELSE Str(n \div 10) \o <<Digit(n % 10)>>

\* %d and %m: two digits, zero padded
Pad2(n) == IF n < 10 THEN <<"0", Digit(n)>> ELSE Str(n)

\* a date format that puts the year first
strftime_YearFirst(now) ==
    Str(now.year) \o <<"-">> \o Pad2(now.month) \o <<"-">> \o Pad2(now.day)

\* line 140: datetime.now().strftime('%d-%m-%Y')
strftime(now) ==
    Pad2(now.day) \o <<"-">> \o Pad2(now.month) \o <<"-">> \o Str(now.year)

\* line 137: os.path.splitext(filepath)[1] of a local file with extension e
splitext(e) == <<".", e>>

\* line 140: the remote file name
NewFilename(jb) ==
    <<jb.class_name, "_", jb.chapter_name, "_", jb.subtopic_name, "_">>
        \o strftime(jb.now)
        \o <<"_", "Class", "_">> \o Str(jb.class_number) \o jb.ext

\* a store left by earlier sessions: one class-year folder, the chapter
\* Thermodynamics with two subtopics holding one recording each, uploaded on
\* 25-12-2023 and 01-01-2024, and the chapter Optics with one recording
PopulatedFolders ==
    {Folder(1, ClassYearName("11th", Year), SHARED_FOLDER_ID, FALSE),
     Folder(2, PlainName("Thermodynamics"), 1, FALSE),
     Folder(3, PlainName("Main"), 2, FALSE),
     Folder(4, PlainName("Numericals"), 2, FALSE),
     Folder(7, PlainName("Optics"), 1, FALSE),
     Folder(8, PlainName("Main"), 7, FALSE)}

PopulatedFiles ==
    {File(5, NewFilename([class_name |-> "11th", chapter_name |-> "Thermodynamics",
                          subtopic_name |-> "Main",
                          now |-> [day |-> 25, month |-> 12, year |-> 2023],
                          class_number |-> 1, ext |-> splitext("mp4")]), 3),
     File(6, NewFilename([class_name |-> "11th", chapter_name |-> "Thermodynamics",
                          subtopic_name |-> "Numericals",
                          now |-> [day |-> 1, month |-> 1, year |-> 2024],
                          class_number |-> 2, ext |-> splitext("mp4")]), 4),
     File(9, NewFilename([class_name |-> "11th", chapter_name |-> "Optics",
                          subtopic_name |-> "Main",
                          now |-> [day |-> 25, month |-> 12, year |-> 2023],
                          class_number |-> 1, ext |-> splitext("mp4")]), 8)}

\* the dates the run may take place on
Dates == {[day |-> 1, month |-> 1, year |-> 2024]}

\* the first id the store hands out during the run
FirstFreshId == 10

DriveInit ==
    /\ \/ folders = {} /\ files = {}
       \/ /\ folders = {Folder(1, ClassYearName("11th", Year), SHARED_FOLDER_ID, TRUE)}
          /\ files = {}
       \/ folders = PopulatedFolders /\ files = PopulatedFiles
    /\ nextId = FirstFreshId
    /\ today \in Dates
    /\ job = [j \in Callers |-> IdleJob]
    /\ ops = 0
    /\ resolved = {}

(***************************************************************************)
(* GoogleDriveManager.get_or_create_folder                                 *)
(***************************************************************************)
\* a resolution that treats an omitted parent as a parent of its own
EffectiveParent_Raw(parent_id) == parent_id

\* line 48: parent_id or self.SHARED_FOLDER_ID
EffectiveParent(parent_id) ==
    IF parent_id = NoParent THEN SHARED_FOLDER_ID ELSE parent_id

\* a resolution that never finds an existing folder
FoundFolders_None(items) == {}

\* lines 56-59: the listed folders one of which is returned instead of creating
FoundFolders(items) == items

\* the state of job j once get_or_create_folder has returned id to it
Resolved(j, id, request) ==
    LET jb == [job[j] EXCEPT !.requests = Append(@, request)]
    IN  CASE jb.level = "direct" ->
                [jb EXCEPT !.pc = "returned", !.ret = Returned(id)]
          [] jb.level = "class_year" ->
                [jb EXCEPT !.class_year_folder_id = id,
                           !.level = "chapter",
                           !.folder_name = PlainName(jb.chapter_name),
                           !.parent_id = id,
                           !.pc = "folder_list"]
          [] jb.level = "chapter" ->
                [jb EXCEPT !.chapter_folder_id = id,
                           !.level = "subtopic",
                           !.folder_name = PlainName(jb.subtopic_name),
                           !.parent_id = id,
                           !.pc = "folder_list"]
          [] OTHER ->
                [jb EXCEPT !.subtopic_folder_id = id, !.pc = "count"]

\* an invocation that goes on after a remote call raised
Failed_Swallowed(j, request) ==
    [job[j] EXCEPT !.requests = Append(@, request)]

\* the state of job j once a remote call raised
Failed(j, request) ==
    [job[j] EXCEPT !.requests = Append(@, request),
                   !.pc = "returned",
                   !.ret = Raised("Exception")]

\* what a completed get_or_create_folder call was asked and what it returned
Resolution(jb, id, created) ==
    [folder_name |-> jb.folder_name, parent_id |-> jb.parent_id,
     id |-> id, created |-> created]

\* a caller invokes get_or_create_folder(folder_name, parent_id) directly
get_or_create_folder(j) ==
    /\ job[j].pc = "idle"
    /\ ops < MaxOps
    /\ ops' = ops + 1
    /\ \E n \in {ClassYearName("11th", Year), PlainName("Main")},
          p \in {NoParent, SHARED_FOLDER_ID}
                   \cup {f.id : f \in {g \in folders : g.parent = SHARED_FOLDER_ID}} :
         job' = [job EXCEPT ![j] =
                    [IdleJob EXCEPT !.op = "get_or_create_folder",
                                    !.level = "direct",
                                    !.folder_name = n,
                                    !.parent_id = p,
                                    !.pc = "folder_list"]]
    /\ UNCHANGED <<folders, files, nextId, today, resolved>>
    /\ UNCHANGED obsVars
    /\ UNCHANGED guiVars

\* lines 50-59: the list request
folder_list(j) ==
    /\ job[j].pc = "folder_list"
    /\ \/ \E id \in FoundFolders(ListFolders(job[j].folder_name,
                                            EffectiveParent(job[j].parent_id))) :
            /\ job' = [job EXCEPT ![j] =
                          Resolved(j, id, Req("list", job[j].level, "found"))]
            /\ resolved' = resolved \cup {Resolution(job[j], id, FALSE)}
       \/ /\ FoundFolders(ListFolders(job[j].folder_name,
                                      EffectiveParent(job[j].parent_id))) = {}
          /\ job' = [job EXCEPT ![j].pc = "folder_create",
                                ![j].listed_at = nextId,
                                ![j].requests =
                                    Append(@, Req("list", job[j].level, "empty"))]
          /\ UNCHANGED resolved
       \/ /\ job' = [job EXCEPT ![j] =
                        Failed(j, Req("list", job[j].level, "raise"))]
          /\ UNCHANGED resolved
    /\ UNCHANGED <<folders, files, nextId, today, ops>>
    /\ UNCHANGED obsVars
    /\ UNCHANGED guiVars

\* lines 60-71: the create request; a request that raised may still have
\* been carried out by the store
folder_create(j) ==
    /\ job[j].pc = "folder_create"
    /\ LET new == Folder(nextId, job[j].folder_name,
                         EffectiveParent(job[j].parent_id), FALSE)
       IN  \/ /\ folders' = folders \cup {new}
              /\ nextId' = nextId + 1
              /\ job' = [job EXCEPT ![j] =
                    Resolved(j, nextId, Req("create_folder", job[j].level, "created"))]
              /\ resolved' = resolved \cup {Resolution(job[j], nextId, TRUE)}
           \/ /\ folders' = folders \cup {new}
              /\ nextId' = nextId + 1
              /\ job' = [job EXCEPT ![j] =
                    Failed(j, Req("create_folder", job[j].level, "raise"))]
              /\ UNCHANGED resolved
           \/ /\ job' = [job EXCEPT ![j] =
                    Failed(j, Req("create_folder", job[j].level, "raise"))]
              /\ UNCHANGED <<folders, nextId, resolved>>
    /\ UNCHANGED <<files, today, ops>>
    /\ UNCHANGED obsVars
    /\ UNCHANGED guiVars

(***************************************************************************)
(* GoogleDriveManager.count_files_in_folder                                *)
(***************************************************************************)
\* name contains pattern: pattern occurs in name
Contains(name, pattern) ==
    \E i \in 1..Len(name) :
        /\ i + Len(pattern) - 1 <= Len(name)
        /\ SubSeq(name, i, i + Len(pattern) - 1) = pattern

\* lines 91-99: the items the first files().list of folder_id returns; the
\* query carries no mimeType condition, the name condition only with a filter
ListedItems(folder_id, file_extension) ==
    IF file_extension = None
    THEN {f.id : f \in {g \in files : g.parent = folder_id}}
            \cup {f.id : f \in SubFolders(folder_id)}
    ELSE {f.id : f \in {g \in files :
                            /\ g.parent = folder_id
                            /\ Contains(g.name, <<".", file_extension>>)}}
            \cup {f.id : f \in {g \in SubFolders(folder_id) :
                                   Contains(g.name, <<".", file_extension>>)}}

\* a counter that reports a failed listing as -1
CountOnError_Sentinel == 0 - 1

\* lines 113-115: the value returned when a listing raised
CountOnError == 0

RECURSIVE SumOver(_, _, _, _)
RECURSIVE count_files_in_folder(_, _, _, _)

\* lines 85-115; failing is the set of folders a listing of which raises,
\* depth bounds the recursion by the height of the folder tree
count_files_in_folder(folder_id, file_extension, failing, depth) ==
    IF folder_id \in failing \/ depth = 0
    THEN CountOnError
    ELSE Cardinality(ListedItems(folder_id, file_extension))
         + SumOver({f.id : f \in SubFolders(folder_id)},
                   file_extension, failing, depth - 1)

SumOver(ids, file_extension, failing, depth) ==
    IF ids = {} THEN 0
    ELSE LET i == CHOOSE x \in ids : TRUE
         IN  count_files_in_folder(i, file_extension, failing, depth)
             + SumOver(ids \ {i}, file_extension, failing, depth)

\* the folders under folder_id, folder_id included
RECURSIVE Subtree(_, _)
Subtree(ids, depth) ==
    IF depth = 0 THEN ids
    ELSE Subtree(ids \cup {f.id : f \in {g \in folders :
                                          g.parent \in ids /\ ~g.trashed}},
                 depth - 1)

\* no folder tree of the model is higher than this
TreeHeight == MaxOps + 4

\* the sets of folders whose listing may fail during a count of folder_id
FailingSets(folder_id) ==
    {F \in SUBSET Subtree({folder_id}, TreeHeight) : Cardinality(F) <= MaxFailures}

\* the extension filters a caller may count with
Filters == {None, "mp4"}

\* a caller invokes count_files_in_folder(folder_id, file_extension) directly
count_files(j) ==
    /\ job[j].pc = "idle"
    /\ ops < MaxOps
    /\ ops' = ops + 1
    /\ \E f \in {g \in folders : ~g.trashed}, e \in Filters :
       \E failing \in FailingSets(f.id) :
         job' = [job EXCEPT ![j] =
                    [IdleJob EXCEPT
                        !.op = "count_files_in_folder",
                        !.folder_id = f.id,
                        !.file_extension = e,
                        !.failing = failing,
                        !.file_count =
                            count_files_in_folder(f.id, e, failing, TreeHeight),
                        !.requests = <<Req("count", "",
                                           IF failing = {} THEN "ok" ELSE "raise")>>,
                        !.ret = [kind |-> "count", id |-> NoParent],
                        !.pc = "returned"]]
    /\ UNCHANGED <<folders, files, nextId, today, resolved>>
    /\ UNCHANGED obsVars
    /\ UNCHANGED guiVars

(***************************************************************************)
(* GoogleDriveManager.upload_file                                          *)
(***************************************************************************)
\* an upload that resolves the folders before looking at the local file
LocalFileMissing_Ignored(exists) == FALSE

\* line 120: not os.path.exists(filepath)
LocalFileMissing(exists) == ~exists

\* an upload that numbers the recordings of the subtopic folder only
CountedFolder_Subtopic(jb) == jb.subtopic_folder_id

\* line 133: the folder whose mp4 files are counted
CountedFolder(jb) == jb.chapter_folder_id

\* an upload that files the recording directly under the chapter folder
Parents_Chapter(jb) == jb.chapter_folder_id

\* line 144: 'parents': [subtopic_folder_id]
Parents(jb) == jb.subtopic_folder_id

\* a conversion to the nearest integer
int_Nearest(num, den) == (2 * num + den) \div (2 * den)

\* line 168: int(x) of the non-negative fraction x = num / den drops the
\* fractional part
int(num, den) == num \div den

\* a progress that reports what is left to send
Progress_Remaining(sent, total) == ((total - sent) * 100) \div total

\* line 168: int(status.progress() * 100)
Progress(sent, total) == int(sent * 100, total)

upload_file(j) ==
    /\ job[j].pc = "idle"
    /\ ops < MaxOps
    /\ ops' = ops + 1
    /\ \E exists \in BOOLEAN, c \in Classes, ch \in Chapters, st \in Subtopics,
          e \in Extensions, n \in 1..MaxChunks :
         LET jb == [IdleJob EXCEPT !.op = "upload_file", !.exists = exists,
                                   !.class_name = c, !.chapter_name = ch,
                                   !.subtopic_name = st, !.ext = splitext(e),
                                   !.now = today, !.total = n]
         IN  job' = [job EXCEPT ![j] =
                IF LocalFileMissing(exists)
                THEN [jb EXCEPT !.pc = "returned",
                                !.ret = Raised("FileNotFoundError")]
                ELSE [jb EXCEPT !.level = "class_year",
                                !.folder_name = ClassYearName(c, Year),
                                !.parent_id = NoParent,
                                !.pc = "folder_list"]]
    /\ UNCHANGED <<folders, files, nextId, today, resolved>>
    /\ UNCHANGED obsVars
    /\ UNCHANGED guiVars

\* lines 132-145: the sequence number and the file name
count(j) ==
    /\ job[j].pc = "count"
    /\ \E failing \in FailingSets(CountedFolder(job[j])) :
         LET file_count == count_files_in_folder(CountedFolder(job[j]), "mp4",
                                                 failing, TreeHeight)
         IN  job' = [job EXCEPT
                ![j].folder_id = CountedFolder(job[j]),
                ![j].file_extension = "mp4",
                ![j].failing = failing,
                ![j].file_count = file_count,
                ![j].class_number = file_count + 1,
                ![j].requests = Append(@, Req("count", "",
                                    IF failing = {} THEN "ok" ELSE "raise")),
                ![j].pc = "next_chunk"]
    /\ UNCHANGED <<folders, files, nextId, today, ops, resolved>>
    /\ UNCHANGED obsVars
    /\ UNCHANGED guiVars

\* a loop that asks for another chunk whatever next_chunk returned
LoopContinues_Always(response) == TRUE

\* line 164: while response is None
LoopContinues(response) == response \notin {"response", "response_noid"}

\* lines 162-179: one next_chunk call of the resumable upload; the callback
\* given by UploadWorker.run emits every value on the progress signal
next_chunk(j) ==
    /\ job[j].pc = "next_chunk"
    /\ \/ /\ job[j].sent + 1 < job[j].total
          /\ job' = [job EXCEPT
                ![j].sent = @ + 1,
                ![j].progress = Append(@, Progress(job[j].sent + 1, job[j].total)),
                ![j].emitted = Append(@, Progress(job[j].sent + 1, job[j].total)),
                ![j].signals = Append(@,
                    ProgressSignal(Progress(job[j].sent + 1, job[j].total))),
                ![j].requests = Append(@, Req("next_chunk", "", "status"))]
          /\ UNCHANGED <<files, nextId>>
       \/ /\ job[j].sent + 1 = job[j].total
          /\ files' = files \cup
                {File(nextId, NewFilename(job[j]), Parents(job[j]))}
          /\ nextId' = nextId + 1
          \* line 171: response.get('id') is the id, or None without one
          /\ \E out \in {"response", "response_noid"} :
               job' = [job EXCEPT
                ![j].sent = @ + 1,
                ![j].requests = Append(@, Req("next_chunk", "", out)),
                ![j].pc = IF LoopContinues(out) THEN "next_chunk"
                          ELSE "returned",
                ![j].ret = IF LoopContinues(out) THEN @
                           ELSE IF out = "response" THEN Returned(nextId)
                           ELSE ReturnedNone]
       \/ /\ job' = [job EXCEPT ![j] = Failed(j, Req("next_chunk", "", "raise"))]
          /\ UNCHANGED <<files, nextId>>
    /\ UNCHANGED <<folders, today, ops, resolved>>
    /\ UNCHANGED obsVars
    /\ UNCHANGED guiVars

(***************************************************************************)
(* UploadWorker.run                                                        *)
(***************************************************************************)
\* a worker that takes every returned value for a success
FinishedSignal_Optimistic(r) ==
    IF r.kind \in {"id", "None"}
    THEN [ok |-> TRUE, message |-> "Upload completed successfully"]
    ELSE [ok |-> FALSE, message |-> r.kind]

\* lines 69-75: the finished signal emitted for the outcome of upload_file
FinishedSignal(r) ==
    CASE r.kind = "id" ->
            [ok |-> TRUE, message |-> "Upload completed successfully"]
      [] r.kind = "None" ->
            [ok |-> FALSE, message |-> "Upload failed - no file ID returned"]
      [] OTHER -> [ok |-> FALSE, message |-> r.kind]

\* lines 68-75: upload_file has returned to or raised into the worker
run(j) ==
    /\ job[j].pc = "returned"
    /\ job[j].op = "upload_file"
    /\ job' = [job EXCEPT
          ![j].emitted = IF job[j].ret.kind = "id" THEN Append(@, 100) ELSE @,
          ![j].finished = Append(@, FinishedSignal(job[j].ret)),
          ![j].signals =
              (IF job[j].ret.kind = "id" THEN Append(@, ProgressSignal(100)) ELSE @)
              \o <<Finished(FinishedSignal(job[j].ret))>>,
          ![j].pc = "finished"]
    /\ UNCHANGED <<folders, files, nextId, today, ops, resolved>>
    /\ UNCHANGED obsVars
    /\ UNCHANGED guiVars

\* the caller takes the result of the invocation
drive_returned(j) ==
    /\ \/ job[j].pc = "finished"
       \/ job[j].pc = "returned" /\ job[j].op # "upload_file"
    /\ job' = [job EXCEPT ![j] = IdleJob]
    /\ UNCHANGED <<folders, files, nextId, today, ops, resolved>>
    /\ UNCHANGED obsVars
    /\ UNCHANGED guiVars

(***************************************************************************)
(* The recording controller                                                *)
(***************************************************************************)
Init ==
    /\ ObsInit
    /\ DriveInit
    /\ GuiInit
    /\ folders = {}
    /\ files = {}

Next ==
    \/ connect
    \/ disconnect
    \/ start_recording
    \/ start_status
    \/ try_recording_method_start
    \/ try_recording_method_verify
    \/ stop_recording
    \/ stop_status
    \/ stop_stop
    \/ stop_after
    \/ upload_last_recording
    \/ returned


Spec == Init /\ [][Next]_vars

(***************************************************************************)
(* The window driving the OBSManager: the user's clicks, the steps of the  *)
(* OBSManager methods they run, and the signals of the upload workers      *)
(***************************************************************************)
GuiSpecInit ==
    /\ ObsInit
    /\ DriveInit
    /\ GuiInit
    /\ folders = {}
    /\ files = {}
    /\ fs = {}

GuiNext ==
    \/ connect_obs
    \/ _on_class_changed
    \/ _on_chapter_changed
    \/ toggle_recording_start
    \/ start_status
    \/ try_recording_method_start
    \/ try_recording_method_verify
    \/ toggle_recording_started
    \/ toggle_recording_stop
    \/ stop_status
    \/ stop_stop
    \/ stop_after
    \/ toggle_recording_stopped
    \/ shown
    \/ upload_clicked
    \/ _upload_finished
    \/ tick

GuiSpec == GuiSpecInit /\ [][GuiNext]_vars

(***************************************************************************)
(* The upload pipeline, one invocation at a time                           *)
(***************************************************************************)
DriveSpecInit ==
    /\ ObsInit
    /\ GuiInit
    /\ obs_active = FALSE
    /\ fs = {}
    /\ DriveInit

DriveSpecNext ==
    \E j \in JobIds :
        \/ get_or_create_folder(j)
        \/ folder_list(j)
        \/ folder_create(j)
        \/ upload_file(j)
        \/ count_files(j)
        \/ count(j)
        \/ next_chunk(j)
        \/ run(j)
        \/ drive_returned(j)

DriveSpec == DriveSpecInit /\ [][DriveSpecNext]_vars

\* the upload pipeline with a backend that answers: a pending next_chunk
\* call of the chunk loop is eventually answered (a status, the final
\* response, or an exception)
DriveLiveSpec ==
    /\ DriveSpecInit
    /\ [][DriveSpecNext]_vars
    /\ \A j \in JobIds : WF_vars(next_chunk(j))

(***************************************************************************)
(* Two threads resolving folders through the same GoogleDriveManager: the  *)
(* requests of one get_or_create_folder interleave with the other's        *)
(***************************************************************************)
ConcurrentNext ==
    \E j \in Callers :
        \/ get_or_create_folder(j)
        \/ folder_list(j)
        \/ folder_create(j)
        \/ drive_returned(j)

ConcurrentSpec == DriveSpecInit /\ [][ConcurrentNext]_vars

(***************************************************************************)
(* Properties of the recording controller                                  *)
(***************************************************************************)
Done(op) == pc = "returned" /\ lastOp = op

MinOf(S) == CHOOSE x \in S : \A y \in S : x <= y

StartCalls == CallsOf("start_record")
StopCalls == CallsOf("stop_record")
Verdicts(v) == {i \in CallsOf("_check_recording_status") : calls[i].out = v}

\* C1: whenever stop_recording has returned, whatever the state it was
\* invoked in and whatever the backend did, is_recording is false.
C1_StopLeavesNotRecording ==
    Done("stop_recording") => ~is_recording

\* C2: (as claimed) whenever start_recording is invoked while a recording is
\* active, a stop_record call precedes the first start_record call of the
\* invocation.
C2_StopBeforeStartWhenActive ==
    (lastOp = "start_recording" /\ pre.is_recording /\ pre.obs_active
        /\ StartCalls # {})
    => \E i \in StopCalls : i < MinOf(StartCalls)

\* C2: (amended) whenever the status query at the beginning of
\* start_recording reports the backend recording, a stop_record call
\* precedes the first start_record call of the invocation.
C2_StopBeforeStartWhenReported ==
    (lastOp = "start_recording" /\ StartCalls # {}
        /\ calls[1] = Call("get_record_status", "active"))
    => \E i \in StopCalls : i < MinOf(StartCalls)

C2_Witness ==
    /\ Done("start_recording")
    /\ pre.is_recording /\ pre.obs_active
    /\ Len(calls) >= 2
    /\ calls[1] = Call("get_record_status", "active")
    /\ calls[2].fn = "stop_record"
    /\ StartCalls # {}

\* C3: a connect whose handshake fails returns False and leaves is_connected
\* false; a start_recording invoked while is_connected is false returns
\* False and issues no call to the backend.
C3_UnreachableBackendRefused ==
    /\ (Done("connect") /\ calls[1] = Call("ReqClient", "raise"))
       => (ret = "False" /\ ~is_connected)
    /\ (lastOp = "start_recording" /\ ~pre.is_connected)
       => (calls = <<>> /\ pc = "returned" /\ ret = "False")

C3_Witness ==
    /\ Done("start_recording")
    /\ ~pre.is_connected
    /\ ~is_connected
    /\ ret = "False"

\* the calls by which the three methods are recognised, in the order of
\* directory-then-start, profile-parameter, direct
StrategyOrder ==
    <<"set_record_directory", "start_record",
      "set_profile_parameter", "set_profile_parameter", "start_record",
      "start_record">>

IsStrategyCall(c) ==
    c.fn \in {"set_record_directory", "set_profile_parameter", "start_record"}

StrategyCalls == SelectSeq(calls, IsStrategyCall)

\* C4: the three methods are tried in the order directory-then-start,
\* profile-parameter, direct; nothing is tried after a method verified, a
\* later method is tried only after the earlier one did not verify, and at
\* most three start_record calls are issued per invocation.
C4_StrategiesInOrder ==
    lastOp = "start_recording" =>
        /\ Len(StrategyCalls) <= Len(StrategyOrder)
        /\ \A i \in 1..Len(StrategyCalls) : StrategyCalls[i].fn = StrategyOrder[i]
        /\ Cardinality(StartCalls) <= 3
        /\ \A v \in Verdicts("True") : \A i \in StartCalls : i < v
        /\ \A i \in StartCalls : i # MinOf(StartCalls) =>
               \E j \in 1..(i - 1) :
                   /\ \/ calls[j] = Call("start_record", "raise")
                      \/ calls[j] = Call("_check_recording_status", "False")
                   /\ \A k \in (j + 1)..(i - 1) : calls[k].fn # "start_record"

C4_Witness ==
    /\ Done("start_recording")
    /\ Cardinality(StartCalls) = 3
    /\ Verdicts("False") # {}
    /\ Verdicts("True") # {}
    /\ calls[Len(calls)] = Call("_check_recording_status", "True")

\* no method of the invocation verified
NoneVerified ==
    /\ Cardinality(StartCalls) = 3
    /\ Verdicts("True") = {}

C6_VerificationMapping ==
    \A i \in CallsOf("_check_recording_status") :
        /\ calls[i - 1].fn = "get_record_status"
        /\ calls[i - 1].out = "active" => calls[i].out = "True"
        /\ calls[i - 1].out = "inactive" => calls[i].out = "False"
        /\ calls[i - 1].out \in {"raise", "nofield"} => calls[i].out = "True"

C6_Witness ==
    /\ Done("start_recording")
    /\ \E i, j, k \in CallsOf("_check_recording_status") :
          /\ calls[i - 1].out = "inactive"
          /\ calls[j - 1].out \in {"raise", "nofield"}
          /\ calls[k].out = "True"
          /\ i < j

\* C7: (as claimed) stop_recording issues a stop_record call from any
\* controller state.
C7_StopAlwaysAttempted ==
    Done("stop_recording") => StopCalls # {}

\* C7: (amended) stop_recording invoked while is_connected is true issues a
\* stop_record call whatever the preceding status query answered.
C7_StopAttemptedWhenConnected ==
    (Done("stop_recording") /\ pre.is_connected) =>
        /\ Len(calls) >= 2
        /\ calls[1].fn = "get_record_status"
        /\ calls[2].fn = "stop_record"

C7_Witness ==
    /\ Done("stop_recording")
    /\ pre.is_connected
    /\ Len(calls) >= 2
    /\ calls[1].out \in {"inactive", "raise"}
    /\ calls[2].fn = "stop_record"

(***************************************************************************)
(* Properties of the upload pipeline                                       *)
(***************************************************************************)
\* the parent a caller means by parent_id
MeantParent(parent_id) ==
    IF parent_id = NoParent THEN SHARED_FOLDER_ID ELSE parent_id

SameFolderAsked(r1, r2) ==
    /\ r1.folder_name = r2.folder_name
    /\ MeantParent(r1.parent_id) = MeantParent(r2.parent_id)

\* C8: with one caller at a time, get_or_create_folder calls with the same
\* name and parent return the same folder id and issue at most one create
\* request; with the parent omitted the folder is resolved under the shared
\* root folder.
C8_GetOrCreateIdempotent ==
    /\ \A r1, r2 \in resolved : SameFolderAsked(r1, r2) => r1.id = r2.id
    /\ \A r1 \in resolved :
          Cardinality({r \in resolved : SameFolderAsked(r, r1) /\ r.created}) <= 1
    /\ \A r \in resolved :
          r.parent_id = NoParent =>
              \E f \in folders : /\ f.id = r.id
                                 /\ f.name = r.folder_name
                                 /\ f.parent = SHARED_FOLDER_ID

C8_Witness ==
    \E r1, r2 \in resolved :
        /\ r1.folder_name = r2.folder_name
        /\ r1.parent_id = NoParent
        /\ r2.parent_id = SHARED_FOLDER_ID
        /\ r1.id = r2.id
        /\ ops = 2
        /\ Cardinality({f \in folders : ~f.trashed}) = 1

\* C9: after any sequence of upload_file calls run one after the other,
\* failed or successful, no two non-trashed folders of the remote store have
\* the same name and the same parent.
C9_FolderUnique ==
    \A f, g \in folders :
        (~f.trashed /\ ~g.trashed /\ f.name = g.name /\ f.parent = g.parent)
        => f.id = g.id

C9_Witness ==
    /\ job[1].op = "upload_file"
    /\ job[1].pc = "returned"
    /\ job[1].ret.kind = "id"
    /\ ops = 2
    /\ Cardinality(files) = 1
    /\ Len(job[1].requests) >= 4
    /\ job[1].requests[1] = Req("list", "class_year", "found")
    /\ job[1].requests[2] = Req("list", "chapter", "found")
    /\ job[1].requests[3] = Req("list", "subtopic", "empty")
    /\ job[1].requests[4] = Req("create_folder", "subtopic", "created")

\* C10: upload_file of a local path that does not exist fails with
\* FileNotFoundError before any request is made to the remote store.
C10_MissingFileFailsFast ==
    \A j \in JobIds :
        (job[j].op = "upload_file" /\ ~job[j].exists) =>
            /\ job[j].pc \in {"returned", "finished"}
            /\ job[j].ret = Raised("FileNotFoundError")
            /\ job[j].requests = <<>>

C10_Witness ==
    /\ job[1].op = "upload_file"
    /\ ~job[1].exists
    /\ job[1].ret.kind = "FileNotFoundError"
    /\ ops = 2
    /\ files # {}

(***************************************************************************)
(* Properties of upload_file                                               *)
(***************************************************************************)
IsUpload(j) == job[j].op = "upload_file"

FolderRequest(r) == r.fn \in {"list", "create_folder"}

LevelRank(l) ==
    CASE l = "class_year" -> 1
      [] l = "chapter" -> 2
      [] l = "subtopic" -> 3
      [] OTHER -> 0

\* request i of job j resolved the folder of level l
ResolvedAt(j, i, l) ==
    /\ job[j].requests[i].level = l
    /\ job[j].requests[i].out \in {"found", "created"}

\* C11: upload_file resolves the class-year folder under the root, then the
\* chapter folder under the class-year folder, then the subtopic folder under
\* the chapter folder; all three are resolved before the sequence number is
\* computed and before the first chunk is sent, and the uploaded file's
\* parent is the subtopic folder.
C11_FoldersResolvedInOrder ==
    \A j \in JobIds : IsUpload(j) =>
        LET reqs == job[j].requests
            n == Len(reqs)
        IN  /\ \A i, k \in 1..n :
                  (i < k /\ FolderRequest(reqs[i]) /\ FolderRequest(reqs[k]))
                  => LevelRank(reqs[i].level) <= LevelRank(reqs[k].level)
            /\ \A i \in 1..n :
                  ~FolderRequest(reqs[i]) =>
                      /\ \A l \in {"class_year", "chapter", "subtopic"} :
                            \E k \in 1..(i - 1) : ResolvedAt(j, k, l)
                      /\ \A k \in (i + 1)..n : ~FolderRequest(reqs[k])
            /\ job[j].class_year_folder_id # NoParent =>
                  \E f \in folders :
                      /\ f.id = job[j].class_year_folder_id
                      /\ f.name = <<job[j].class_name, "_", Year>>
                      /\ f.parent = SHARED_FOLDER_ID
            /\ job[j].chapter_folder_id # NoParent =>
                  \E f \in folders :
                      /\ f.id = job[j].chapter_folder_id
                      /\ f.name = <<job[j].chapter_name>>
                      /\ f.parent = job[j].class_year_folder_id
                      /\ job[j].class_year_folder_id # NoParent
            /\ job[j].subtopic_folder_id # NoParent =>
                  \E f \in folders :
                      /\ f.id = job[j].subtopic_folder_id
                      /\ f.name = <<job[j].subtopic_name>>
                      /\ f.parent = job[j].chapter_folder_id
                      /\ job[j].chapter_folder_id # NoParent
            /\ job[j].ret.kind = "id" =>
                  \E f \in files :
                      /\ f.id = job[j].ret.id
                      /\ f.parent = job[j].subtopic_folder_id
                      /\ job[j].subtopic_folder_id # NoParent

C11_Witness ==
    /\ IsUpload(1)
    /\ job[1].ret.kind = "id"
    /\ Len(job[1].requests) >= 8
    /\ job[1].requests[2] = Req("create_folder", "class_year", "created")
    /\ job[1].requests[4] = Req("create_folder", "chapter", "created")
    /\ job[1].requests[6] = Req("create_folder", "subtopic", "created")
    /\ job[1].requests[7].fn = "count"
    /\ job[1].requests[8].fn = "next_chunk"

\* a name that ends with the extension .mp4
IsMp4(name) ==
    /\ Len(name) >= 2
    /\ name[Len(name) - 1] = "."
    /\ name[Len(name)] = "mp4"

\* folder id is folder_id or lies under it, and no folder on the way from id
\* up to folder_id is trashed or in the set avoided
RECURSIVE IsUnder(_, _, _, _)
IsUnder(id, folder_id, avoided, depth) ==
    /\ id \notin avoided
    /\ \/ id = folder_id
       \/ /\ depth > 0
          /\ \E f \in folders : /\ f.id = id
                                /\ ~f.trashed
                                /\ IsUnder(f.parent, folder_id, avoided, depth - 1)

\* the mp4 files anywhere under folder_id
Mp4Under(folder_id) ==
    {f \in files : IsMp4(f.name) /\ IsUnder(f.parent, folder_id, {}, TreeHeight)}

\* upload_file of job j has computed the sequence number and not yet created
\* the file
Numbered(j) == IsUpload(j) /\ job[j].pc = "next_chunk"

\* C12: (as claimed) the sequence number of an upload is one plus the number
\* of mp4 files anywhere under the chapter folder.
C12_SequenceCountsChapter ==
    \A j \in JobIds : Numbered(j) =>
        job[j].class_number
            = 1 + Cardinality(Mp4Under(job[j].chapter_folder_id))

\* C12: (amended) when no listing fails during the count, the sequence number
\* of an upload is one plus the number of mp4 files anywhere under the chapter
\* folder, whatever subtopic folder they are in.
C12_SequenceCountsChapterWhenListed ==
    \A j \in JobIds : (Numbered(j) /\ job[j].failing = {}) =>
        job[j].class_number
            = 1 + Cardinality(Mp4Under(job[j].chapter_folder_id))

C12_Witness ==
    /\ Numbered(1)
    /\ job[1].failing = {}
    /\ job[1].class_number = 3
    /\ Cardinality({f \in files : f.parent = job[1].subtopic_folder_id}) = 1

\* C13: (as claimed) every successful upload_file into a chapter, whatever
\* the extension of the uploaded file, increases the chapter's count of
\* numbered files by one, so that the next upload gets the next sequence
\* number: once the upload has returned, the count is the sequence number it
\* used.
C13_UploadAdvancesCount ==
    \A j \in JobIds :
        (IsUpload(j) /\ job[j].ret.kind = "id" /\ job[j].failing = {}) =>
            count_files_in_folder(job[j].chapter_folder_id, "mp4", {}, TreeHeight)
                = job[j].class_number

IsCount(j) == job[j].op = "count_files_in_folder"

\* the name of a file passes the extension filter
Matches(name, file_extension) ==
    file_extension = None \/ Contains(name, <<".", file_extension>>)

\* C14: (as claimed) count_files_in_folder returns the number of files in the
\* folder and all its descendants whose name matches the extension filter;
\* folders are not counted as files.
C14_CountsFilesOnly ==
    \A j \in JobIds : (IsCount(j) /\ job[j].failing = {}) =>
        job[j].file_count =
            Cardinality({f \in files :
                /\ Matches(f.name, job[j].file_extension)
                /\ IsUnder(f.parent, job[j].folder_id, {}, TreeHeight)})

\* job j has run count_files_in_folder, directly or within upload_file
Counted(j) == \E i \in 1..Len(job[j].requests) : job[j].requests[i].fn = "count"

\* C15: (as claimed) when a listing fails during counting the count is zero
\* and upload_file goes on with sequence number 1.
C15_FailedCountIsZero ==
    \A j \in JobIds : (Counted(j) /\ job[j].failing # {}) =>
        /\ job[j].file_count = 0
        /\ IsUpload(j) => job[j].class_number = 1

\* the files and folders a count of job j lists in the folders it can reach
ListedBy(j) ==
    {f.id : f \in {g \in files :
        /\ Matches(g.name, job[j].file_extension)
        /\ IsUnder(g.parent, job[j].folder_id, job[j].failing, TreeHeight)}}
    \cup
    {f.id : f \in {g \in folders :
        /\ ~g.trashed
        /\ job[j].file_extension = None
        /\ IsUnder(g.parent, job[j].folder_id, job[j].failing, TreeHeight)}}

\* C15: (amended) count_files_in_folder never raises, and an upload_file in
\* which a listing failed during counting goes on to the transfer.  When the
\* listing of the counted folder itself fails the count is zero and the
\* sequence number is 1; when the listing of a folder below it fails, only
\* what lies in and under that folder is left out of the count.
C15_FailedCountSwallowed ==
    \A j \in JobIds : (Counted(j) /\ job[j].failing # {}
                        /\ job[j].requests[Len(job[j].requests)].fn = "count") =>
        /\ IF IsUpload(j)
           THEN /\ job[j].pc = "next_chunk"
                /\ job[j].ret.kind = "pending"
                /\ job[j].class_number = job[j].file_count + 1
           ELSE job[j].ret.kind = "count"
        /\ job[j].folder_id \in job[j].failing => job[j].file_count = 0
        /\ job[j].file_count = Cardinality(ListedBy(j))

C15_Witness ==
    /\ Numbered(1)
    /\ job[1].requests[Len(job[1].requests)].fn = "count"
    /\ job[1].failing # {}
    /\ job[1].folder_id \notin job[1].failing
    /\ job[1].class_number = 2
    /\ Cardinality(Mp4Under(job[1].chapter_folder_id)) = 2

\* the two decimal digits of a number below 100
TwoDigits(n) == <<Digit(n \div 10), Digit(n % 10)>>

\* the four decimal digits of a year
FourDigits(n) ==
    <<Digit(n \div 1000), Digit((n \div 100) % 10),
      Digit((n \div 10) % 10), Digit(n % 10)>>

\* a sequence number below 100 in decimal, without leading zero
Decimal(n) == IF n < 10 THEN <<Digit(n)>> ELSE TwoDigits(n)

\* the file a successful upload of job j created
UploadedFile(j) == CHOOSE f \in files : f.id = job[j].ret.id

\* C16: the name of the uploaded file is class, chapter, subtopic, the date as
\* DD-MM-YYYY, the word Class and the sequence number, joined by underscores
\* and followed by the extension of the local file; class 11th, chapter
\* Thermodynamics, subtopic Main on 01-01-2024 with sequence number 3 and
\* extension .mp4 give 11th_Thermodynamics_Main_01-01-2024_Class_3.mp4.
C16_RemoteFilename ==
    \A j \in JobIds : (IsUpload(j) /\ job[j].ret.kind = "id") =>
        /\ UploadedFile(j).name =
              <<job[j].class_name, "_", job[j].chapter_name, "_",
                job[j].subtopic_name, "_">>
              \o TwoDigits(job[j].now.day) \o <<"-">>
              \o TwoDigits(job[j].now.month) \o <<"-">>
              \o FourDigits(job[j].now.year)
              \o <<"_", "Class", "_">> \o Decimal(job[j].class_number)
              \o job[j].ext
        /\ ( /\ job[j].class_name = "11th"
             /\ job[j].chapter_name = "Thermodynamics"
             /\ job[j].subtopic_name = "Main"
             /\ job[j].now = [day |-> 1, month |-> 1, year |-> 2024]
             /\ job[j].class_number = 3
             /\ job[j].ext = <<".", "mp4">> )
           => UploadedFile(j).name =
                <<"11th", "_", "Thermodynamics", "_", "Main", "_",
                  "0", "1", "-", "0", "1", "-", "2", "0", "2", "4",
                  "_", "Class", "_", "3", ".", "mp4">>

C16_Witness ==
    /\ IsUpload(1)
    /\ job[1].ret.kind = "id"
    /\ \E f \in files :
          /\ f.id = job[1].ret.id
          /\ f.name = <<"11th", "_", "Thermodynamics", "_", "Main", "_",
                        "0", "1", "-", "0", "1", "-", "2", "0", "2", "4",
                        "_", "Class", "_", "3", ".", "mp4">>

NonDecreasing(s) == \A i, k \in 1..Len(s) : i < k => s[i] <= s[k]

\* C17: (as claimed) in a successful upload_file run the values passed to the
\* progress callback are non-decreasing and, when there is any, the last one
\* is 100.
C17_CallbackEndsAt100 ==
    \A j \in JobIds : (IsUpload(j) /\ job[j].ret.kind = "id") =>
        /\ NonDecreasing(job[j].progress)
        /\ job[j].progress # <<>> =>
              job[j].progress[Len(job[j].progress)] = 100

\* C17: (amended) in a successful upload_file run the values upload_file
\* passes to the progress callback are non-decreasing and all below 100; the
\* value 100 is emitted on the progress signal by UploadWorker.run after
\* upload_file has returned the file id, so the values of the progress signal
\* are non-decreasing and the last one is 100.
C17_ProgressSignalEndsAt100 ==
    \A j \in JobIds : (IsUpload(j) /\ job[j].ret.kind = "id") =>
        /\ NonDecreasing(job[j].progress)
        /\ \A i \in 1..Len(job[j].progress) : job[j].progress[i] < 100
        /\ NonDecreasing(job[j].emitted)
        /\ job[j].pc = "finished" =>
              /\ job[j].emitted = Append(job[j].progress, 100)
              /\ job[j].emitted[Len(job[j].emitted)] = 100

C17_Witness ==
    /\ IsUpload(1)
    /\ job[1].pc = "finished"
    /\ job[1].progress = <<33, 66>>
    /\ job[1].emitted = <<33, 66, 100>>

\* C18: when a folder list or create request or a next_chunk request raises
\* during upload_file, that request is the last one of the invocation,
\* upload_file raises and returns no file id, and the worker emits
\* finished(False, message) and never finished(True).
C18_RemoteFailureAborts ==
    \A j \in JobIds : IsUpload(j) =>
        \A i \in 1..Len(job[j].requests) :
            (job[j].requests[i].out = "raise" /\ job[j].requests[i].fn # "count") =>
                /\ i = Len(job[j].requests)
                /\ job[j].pc \in {"returned", "finished"}
                /\ job[j].ret = Raised("Exception")
                /\ \A k \in 1..Len(job[j].finished) : ~job[j].finished[k].ok
                /\ job[j].pc = "finished" =>
                      job[j].finished = <<[ok |-> FALSE, message |-> "Exception"]>>
                /\ job[j].emitted = job[j].progress

C18_Witness ==
    /\ IsUpload(1)
    /\ job[1].pc = "finished"
    /\ Len(job[1].requests) >= 2
    /\ job[1].requests[Len(job[1].requests)] = Req("next_chunk", "", "raise")
    /\ job[1].requests[Len(job[1].requests) - 1] = Req("next_chunk", "", "status")
    /\ job[1].finished = <<[ok |-> FALSE, message |-> "Exception"]>>

(***************************************************************************)
(* Properties of the controller's failure handling                         *)
(***************************************************************************)
Guarded == {"connect", "start_recording", "stop_recording", "upload_last_recording"}

\* a call of the invocation raised
SomeCallRaised ==
    \E i \in 1..Len(calls) : calls[i].out \in {"raise", "TypeError"}

\* C19: (as claimed) when a backend call fails within connect,
\* start_recording, stop_recording or upload_last_recording, the method
\* returns False or None.
C19_FailureValueOnAnyFailure ==
    (pc = "returned" /\ lastOp \in Guarded /\ SomeCallRaised)
        => ret \in {"False", "None"}

\* C19: (amended) connect, start_recording, stop_recording and
\* upload_last_recording always return a value, whatever call raises:
\* connect returns False when the handshake raises, upload_last_recording
\* returns None when the upload raises, while start_recording and
\* stop_recording absorb the exceptions of the backend calls and may still
\* return True.
C19_NeverPropagates ==
    (pc = "returned" /\ lastOp \in Guarded) =>
        /\ ret \in {"True", "False", "None", "file_id"}
        /\ lastOp \in {"connect", "start_recording", "stop_recording"}
              => ret \in {"True", "False"}
        /\ (lastOp = "connect" /\ calls[1].out = "raise") => ret = "False"
        /\ (lastOp = "upload_last_recording" /\ SomeCallRaised) => ret = "None"

C19_Witness ==
    /\ Done("upload_last_recording")
    /\ Len(calls) = 2
    /\ calls[2] = Call("upload_file", "TypeError")
    /\ ret = "None"

\* C20: (as claimed) upload_last_recording returns the remote file id when
\* last_recording_path names an existing local file and no request to the
\* remote store fails.
C20_UploadLastRecordingReturnsId ==
    ( /\ Done("upload_last_recording")
      /\ last_recording_path # NoPath
      /\ last_recording_path \in fs
      /\ \A i \in 1..Len(calls) : calls[i].out # "raise" )
    => ret = "file_id"

(***************************************************************************)
(* Properties of the recording session                                     *)
(***************************************************************************)
\* C23: after every connect whose handshake succeeded, has_scenes is true and
\* is_ready_for_recording() is true, whether the scene probe returned scenes,
\* returned none or raised.
C23_ReadyAfterConnect ==
    (Done("connect") /\ calls[1] = Call("ReqClient", "ok")) =>
        /\ has_scenes
        /\ is_ready_for_recording
        /\ ret = "True"

C23_Witness ==
    /\ Done("connect")
    /\ Len(calls) >= 3
    /\ calls[1] = Call("ReqClient", "ok")
    /\ calls[3] \in {Call("get_scene_list", "empty"), Call("get_scene_list", "raise")}
    /\ is_ready_for_recording

\* the extensions of the claim, in the order of the claim
ClaimedExtensions == <<".mp4", ".mkv", ".flv", ".mov", ".avi">>

\* the first file of the last-known directory and stem that exists
FirstExisting ==
    LET hits == {i \in 1..Len(ClaimedExtensions) :
                   MkPath(recording_path, recording_filename,
                          ClaimedExtensions[i]) \in fs}
    IN  IF recording_path = None \/ recording_filename = 0 \/ hits = {}
        THEN NoPath
        ELSE MkPath(recording_path, recording_filename,
                    ClaimedExtensions[MinOf(hits)])

\* a stop_recording that went through the stop has returned
Stopped == Done("stop_recording") /\ ret = "True"

\* C24: (as claimed) when the stop response carries a path,
\* last_recording_path is that path; when it carries none or the stop call
\* raises, last_recording_path is the first existing file of the scan.
C24_StopLocatesRecording ==
    Stopped =>
        IF output_path # NoPath
        THEN last_recording_path = output_path
        ELSE FirstExisting # NoPath => last_recording_path = FirstExisting

\* C24: (amended) the reported path is kept when its file exists after the
\* settle delay; otherwise (no path reported, the stop call raised, or the
\* reported file is missing) the first existing file of the scan over .mp4,
\* .mkv, .flv, .mov, .avi replaces it, and when the scan finds nothing
\* last_recording_path is the reported path if there was one and its
\* previous value if not.
C24_StopLocatesRecordingOnDisk ==
    Stopped =>
        last_recording_path =
            IF output_path # NoPath /\ output_path \in fs THEN output_path
            ELSE IF FirstExisting # NoPath THEN FirstExisting
            ELSE IF output_path # NoPath THEN output_path
            ELSE pre.last_recording_path

C24_Witness ==
    /\ Stopped
    /\ output_path = NoPath
    /\ calls[2] \in {Call("stop_record", "ok_nopath"), Call("stop_record", "raise")}
    /\ MkPath(DataDir, 1, ".flv") \in fs
    /\ last_recording_path = MkPath(DataDir, 1, ".mkv")

\* C25: (as claimed) after the stop_recording of a cycle, last_recording_path
\* is the file that cycle produced (the reported path or the file the scan
\* found) or unset; it never still holds the path of an earlier cycle.
C25_NoPathOfEarlierCycle ==
    (Stopped /\ pre.is_recording) =>
        last_recording_path \in {NoPath, output_path, FirstExisting}

\* C26: (as claimed) stop_recording returns True exactly when the backend's
\* stop_record call succeeded.
C26_ReturnsStopOutcome ==
    Done("stop_recording") =>
        (ret = "True" <=>
            \E i \in StopCalls : calls[i].out \in {"ok_path", "ok_nopath"})

\* C29: (as claimed) within stop_recording the order is status query,
\* stop_record, settle delay, status re-query.
C29_RequeryAfterDelay ==
    Stopped =>
        /\ Len(calls) = 4
        /\ calls[1].fn = "get_record_status"
        /\ calls[2].fn = "stop_record"
        /\ calls[3] = Call("sleep", "5")
        /\ calls[4].fn = "get_record_status"

\* C29: (amended) within stop_recording the order is status query,
\* stop_record, status re-query, settle delay: the status is asked again
\* before the delay, and only the file check comes after it.
C29_RequeryBeforeDelay ==
    /\ Stopped =>
        /\ Len(calls) = 4
        /\ calls[1].fn = "get_record_status"
        /\ calls[2].fn = "stop_record"
        /\ calls[3].fn = "get_record_status"
        /\ calls[4] = Call("sleep", "5")
    /\ (lastOp = "stop_recording" /\ pc # "returned") =>
        Call("sleep", "5") \notin {calls[i] : i \in 1..Len(calls)}

C29_Witness ==
    /\ Stopped
    /\ Len(calls) = 4
    /\ calls[2] = Call("stop_record", "ok_path")
    /\ calls[3] = Call("get_record_status", "inactive")
    /\ calls[4] = Call("sleep", "5")

(***************************************************************************)
(* Properties of the upload worker                                         *)
(***************************************************************************)
FinishedAt(j) == {i \in 1..Len(job[j].signals) : job[j].signals[i].signal = "finished"}

\* C28: every run of the worker emits exactly one finished signal, and none
\* before upload_file has ended; it is finished(True, ...) exactly when
\* upload_file returned a file id and finished(False, message) otherwise; on
\* success progress 100 is emitted right before it; finished is the last
\* signal of the run.
C28_ExactlyOneFinished ==
    \A j \in JobIds :
        /\ (job[j].op = "upload_file" /\ job[j].pc # "finished") =>
              FinishedAt(j) = {}
        /\ job[j].pc = "finished" =>
              LET n == Len(job[j].signals)
                  last == job[j].signals[n]
              IN  /\ FinishedAt(j) = {n}
                  /\ job[j].finished = <<[ok |-> last.ok, message |-> last.message]>>
                  /\ last.ok <=> (job[j].ret.kind = "id" /\ job[j].ret.id # NoParent)
                  /\ last.ok => /\ n >= 2
                                /\ job[j].signals[n - 1] = ProgressSignal(100)
                                /\ last.message = "Upload completed successfully"
                  /\ job[j].ret.kind = "None" =>
                        last.message = "Upload failed - no file ID returned"
                  /\ ~last.ok => last.message # "Upload completed successfully"

C28_Witness ==
    /\ job[1].pc = "finished"
    /\ job[1].ret = ReturnedNone
    /\ job[1].sent = job[1].total
    /\ job[1].finished =
          <<[ok |-> FALSE, message |-> "Upload failed - no file ID returned"]>>
    /\ Len(job[1].signals) >= 2

(***************************************************************************)
(* Properties of concurrent folder resolution                              *)
(***************************************************************************)
\* the non-trashed folders called name under the parent meant by parent_id
FoldersFor(name, parent_id) ==
    {f \in folders : /\ f.name = name
                     /\ f.parent = MeantParent(parent_id)
                     /\ ~f.trashed}

\* C30: the list request and the create request of get_or_create_folder are
\* two steps: a caller that is about to create saw no matching folder, and
\* every matching folder now in the store was created after its list request
\* by another caller, so two callers resolving the same (name, parent) can
\* both create and the store then holds two folders for that pair, one per
\* caller and never more than there are callers.
C30_CreateFollowsStaleList ==
    /\ \A j \in Callers : job[j].pc = "folder_create" =>
          /\ job[j].listed_at # NoParent
          /\ \A f \in FoldersFor(job[j].folder_name, job[j].parent_id) :
                f.id >= job[j].listed_at
    /\ \A f \in folders :
          Cardinality(FoldersFor(f.name, f.parent)) <= Cardinality(Callers)

C30_Witness ==
    \E r1, r2 \in resolved :
        /\ r1.created /\ r2.created
        /\ r1.id # r2.id
        /\ r1.folder_name = r2.folder_name
        /\ MeantParent(r1.parent_id) = MeantParent(r2.parent_id)
        /\ Cardinality(FoldersFor(r1.folder_name, r1.parent_id)) = 2

(***************************************************************************)
(* Properties of the window                                                *)
(***************************************************************************)
\* the stop flow of the window is over and its outcome is on display
StopFlowOver == pc = "shown" /\ lastOp = "stop_recording"

\* the k-th path of the series name.ext, name_1.ext, name_2.ext, ... in dir
SeriesPath(dir, name, k) == MkPath(dir, name.stem + SuffixBase * k, name.ext)

RecentMp4(disk, mtimes) ==
    {f \in disk : /\ f.ext = ".mp4"
                  /\ f.dir \in ScannedDirs
                  /\ \E i \in 1..Len(mtimes) : mtimes[i] = f}

\* C22: (as claimed) when the backend reported no output path on stop and no
\* .mp4 file of the last 60 seconds is in a scanned folder, the stop flow
\* ends with no file selected and the upload button disabled.
C22_NothingLocatedNothingOffered ==
    ( /\ StopFlowOver
      /\ \A i \in StopCalls : calls[i].out # "ok_path"
      /\ RecentMp4(flow.disk, flow.mtimes) = {} )
    => (selected_file = NoPath /\ ~upload_btn)

\* C27: (as claimed) no second UploadWorker is started while an earlier one
\* has not emitted finished.
C27_OneUploadInFlight ==
    upload_worker <= 1

(***************************************************************************)
(* Frame and state properties of the recording controller                  *)
(***************************************************************************)
\* C35: a stop_recording invoked while is_connected is false returns False
\* at once, issues no backend call and leaves is_recording,
\* last_recording_path, recording_path and recording_filename unchanged.
C35_RefusedStopChangesNothing ==
    [][(pc = "idle" /\ lastOp' = "stop_recording" /\ ~is_connected) =>
          /\ pc' = "returned"
          /\ ret' = "False"
          /\ calls' = <<>>
          /\ UNCHANGED <<is_connected, is_recording, last_recording_path,
                         recording_path, recording_filename>>]_vars

C35_Witness ==
    /\ Done("stop_recording")
    /\ ~pre.is_connected
    /\ ret = "False"
    /\ calls = <<>>
    /\ is_recording
    /\ last_recording_path # NoPath

\* C36: (as claimed) is_recording implies is_connected in every reachable
\* state of the controller.
C36_RecordingImpliesConnected ==
    is_recording => is_connected

\* the calls of the log that went to the capture backend
BackendCalls ==
    {i \in 1..Len(calls) :
        calls[i].fn \in {"get_record_status", "stop_record", "start_record",
                         "set_record_directory", "set_profile_parameter"}}

C38_UploadEnabledOnlyWithSelection ==
    upload_btn => selected_file # NoPath

\* C39: (as claimed) whenever is_recording is true the record/stop button is
\* enabled: no dropdown change and no upload completion during a recording
\* disables it.
C39_StopControlEnabledWhileRecording ==
    is_recording => record_btn

\* C40: (as claimed) the completion of an upload job affects only the file
\* it uploaded: when a new recording has been made and selected since the
\* job started, the job's finished signal leaves that selection and its
\* class and chapter choice as they are.
C40_CompletionSparesNewerSelection ==
    [][(/\ upload_worker' = upload_worker - 1
        /\ selected_since_upload
        /\ selected_file # NoPath)
       => UNCHANGED <<selected_file, class_dropdown, chapter_dropdown>>]_vars

\* the file of S modified last, mtimes being in ascending order of time
MostRecent(S, mtimes) ==
    CHOOSE f \in S :
        \E i \in 1..Len(mtimes) :
            /\ mtimes[i] = f
            /\ \A j \in 1..Len(mtimes) : mtimes[j] \in S => j <= i

\* C32: the fallback scan of the stop flow selects a file only if it is an
\* .mp4 file modified within the last 60 seconds, and then the one modified
\* last, enabling the upload button; when no such file exists the scan
\* selects nothing: the selection stays as it was, and so does the upload
\* button when the scan was not entered from the rename.
C32_ScanSelectsMostRecentMp4 ==
    [][(pc = "returned" /\ pc' = "shown" /\ flow'.searched) =>
          LET cand == RecentMp4(fs, recent)
          IN  IF cand # {}
              THEN /\ selected_file' = MostRecent(cand, recent)
                   /\ selected_file'.ext = ".mp4"
                   /\ upload_btn'
              ELSE /\ selected_file' = selected_file
                   /\ flow'.actual = NoPath => upload_btn' = upload_btn]_vars

C32_Witness ==
    /\ StopFlowOver
    /\ flow.searched
    /\ Cardinality(RecentMp4(flow.disk, flow.mtimes)) >= 2
    /\ selected_file = MostRecent(RecentMp4(flow.disk, flow.mtimes), flow.mtimes)

(***************************************************************************)
(* The chunk loop of upload_file                                           *)
(***************************************************************************)
\* C33: (as claimed) the i-th value passed to the progress callback is the
\* integer nearest to 100 times the fraction sent after i chunks, and lies
\* in 0..100.
C33_ProgressIsNearestPercent ==
    \A j \in JobIds : IsUpload(j) =>
        \A i \in 1..Len(job[j].progress) :
            LET v == job[j].progress[i]
            IN  /\ v \in 0..100
                /\ 2 * (100 * i - v * job[j].total) <= job[j].total
                /\ 2 * (v * job[j].total - 100 * i) <= job[j].total

\* C33: (amended) the i-th value passed to the progress callback is 100
\* times the fraction sent after i chunks with the fractional part dropped
\* (the largest integer not above it), and lies in 0..100.
C33_ProgressIsTruncatedPercent ==
    \A j \in JobIds : IsUpload(j) =>
        \A i \in 1..Len(job[j].progress) :
            LET v == job[j].progress[i]
            IN  /\ v \in 0..100
                /\ v * job[j].total <= 100 * i
                /\ 100 * i < (v + 1) * job[j].total

C33_Witness ==
    /\ IsUpload(1)
    /\ job[1].total = 3
    /\ Len(job[1].progress) = 2
    /\ job[1].progress[2] = 66

\* the requests of job j that received the final response of the upload
FinalResponses(j) ==
    {i \in 1..Len(job[j].requests) :
        /\ job[j].requests[i].fn = "next_chunk"
        /\ job[j].requests[i].out \in {"response", "response_noid"}}

\* C34: the chunk loop terminates: when every pending next_chunk call is
\* eventually answered, an upload_file that has entered the loop eventually
\* returns (the id of the response) or raises; the request that received the
\* final response is the last request of the invocation, which has returned.
C34_ChunkLoopTerminates ==
    /\ [](\A j \in JobIds : IsUpload(j) =>
            \A i \in FinalResponses(j) :
                /\ i = Len(job[j].requests)
                /\ job[j].pc \in {"returned", "finished"}
                /\ job[j].ret.kind \in {"id", "None"})
    /\ \A j \in JobIds :
          (job[j].pc = "next_chunk")
             ~> (/\ job[j].pc = "returned"
                 /\ job[j].ret.kind \in {"id", "None", "Exception"})

C34_Witness ==
    /\ IsUpload(1)
    /\ job[1].pc = "returned"
    /\ job[1].ret.kind = "id"
    /\ job[1].total = MaxChunks
    /\ job[1].sent = job[1].total
    /\ FinalResponses(1) = {Len(job[1].requests)}
    /\ Cardinality({i \in 1..Len(job[1].requests) :
                      job[1].requests[i].fn = "next_chunk"}) = MaxChunks

(***************************************************************************)
(* Sequence numbers of successive uploads                                  *)
(***************************************************************************)
\* the files uploaded by earlier invocations of this run
UploadedBefore(j) ==
    {g \in files : g.id >= FirstFreshId /\ g.id # job[j].ret.id}

\* C31: (as claimed) only interleaved jobs compute the same sequence number
\* and the same remote file name: an upload_file that ran after the earlier
\* uploads had completed never gives its file the name of a file one of them
\* put into the same folder.
C31_SequentialUploadsNamedApart ==
    \A j \in JobIds :
        (IsUpload(j) /\ job[j].ret.kind = "id") =>
            \A g \in UploadedBefore(j) :
                ~(g.parent = Parents(job[j]) /\ g.name = NewFilename(job[j]))

====
